---- MODULE Spec2Model ----
(***************************************************************************)
(* A model of dones.py: the process-wide registry get(), the relational    *)
(* facade DbDones over KStore (a MySQL table per namespace), the log store *)
(* FileJSONAppendDones (an append-only file per namespace) and the         *)
(* transaction helper doTransaction; then the connection opener open_conn, *)
(* and processes and threads stepping through the same code concurrently.  *)
(*                                                                         *)
(* Strings the code slices or compares character by character (log lines,  *)
(* JSON encodings) are sequences of one-character strings.  A Python value *)
(* used as a dictionary key is a tagged tuple, so that a str and a tuple   *)
(* are different values, as they are in Python.                            *)
(***************************************************************************)
EXTENDS Integers, Sequences, FiniteSets, TLC

VARIABLES
    backing,      \* what the run exercises: "db", "log", or one part on its own
                  \* ("tx", "conn", "proc", "add", "threads")
    DONES_CACHE,  \* dones.py:25, the registry: cache key -> handle
    facades,      \* the DbDones objects constructed so far, by handle 1..Len
    db,           \* the MySQL server(s): db[url][table] = [exists, rows]
    files,        \* the filesystem: files[path] = [exists, content]
    dbLast,       \* history: per table and key, the latest mark/unmark that returned
    dbCleared,    \* history: a clear() has dropped this table at some point
    fileLast,     \* history: per log file and key, the latest mark/unmark
    tx,           \* one invocation of doTransaction, step by step
    oc,           \* one call of open_conn, step by step
    procs,        \* processes, each with a DbDones of its own, statement by statement
    th,           \* threads of one process inside get(), line by line
    lp            \* a process inside done, are_done or clear of a log file, step by step

vars == <<backing, DONES_CACHE, facades, db, files, dbLast, dbCleared,
          fileLast, tx, oc, procs, th, lp>>

----
\* Bounds of the model.

\* DbDones objects constructed in one run
MaxFacades == 2
\* lines held by all log files together
MaxLines == 4
\* length of a key list passed to are_done / all_done / any_done
MaxKeys == 2
\* invocations of doTransaction in one run
MaxTx == 2
\* the largest retries argument given to open_conn
MaxRetries == 3
\* calls of open_conn in one run
MaxCalls == 2
\* lines of the log file that is read while others append to it
MaxScanLines == 3

----
\* Python values

None == "None"

Namespaces == {"A", "B"}

\* The database URLs in use; DONES_DB_URL is the module default (dones.py:22),
\* which get() and DbDones take when dburl is None.
Urls == {"u1"}
DONES_DB_URL == "u1"

\* Keys: the int 1 and the str "1".  v holds the characters of the value.
KInt1 == [type |-> "int", v |-> <<"1">>]
KStr1 == [type |-> "str", v |-> <<"1">>]
Keys == {KInt1, KStr1}

PyStr(s) == <<"str", s>>
PyTuple2(a, b) == <<"tuple", a, b>>

\* A faulty variant of Serialize: str(key), which prints a str without quotes.
SerializeStr(key) == key.v

\* json.dumps(key): an int prints its digits, a str is wrapped in double quotes.
Serialize(key) ==
    IF key.type = "str" THEN <<"\"">> \o key.v \o <<"\"">> ELSE key.v

EncodedKeys == {Serialize(k) : k \in Keys}

\* 'dones_{}'.format(ns)
DonesNs(ns) == <<"dones_", ns>>

Tables == {DonesNs(ns) : ns \in Namespaces}

Range(s) == {s[i] : i \in 1..Len(s)}

\* No mark and no unmark yet, for any key.
NoHistory == [k \in Keys |-> "none"]

RECURSIVE SeqsUpTo(_, _)
SeqsUpTo(S, n) ==
    IF n = 0 THEN {<<>>}
    ELSE LET shorter == SeqsUpTo(S, n - 1)
         IN  shorter \cup {Append(s, x) : s \in {t \in shorter : Len(t) = n - 1}, x \in S}

KeyLists == SeqsUpTo(Keys, MaxKeys)

----
\* doTransaction (dones.py:323-340), a generator-based context manager.
\* conn is "conn" (a DBAPI connection) or None.  issued lists the calls made on
\* the connection; raised names the exception that leaves the with-statement.

\* A faulty variant of TxEnterStep: the start statement sits before the try,
\* so its failure is not followed by a rollback.
TxEnterStepNoRollback(conn, start, startOk, rollbackOk) ==
    IF ~start
    THEN [pc |-> "body", issued |-> <<>>, raised |-> "none"]
    ELSE IF conn = None
         THEN [pc |-> "done", issued |-> <<>>, raised |-> "AttributeError"]
         ELSE IF startOk
              THEN [pc |-> "body", issued |-> <<"start">>, raised |-> "none"]
              ELSE [pc |-> "done", issued |-> <<"start">>, raised |-> "StartError"]

\* The part run on entering the with-statement: up to the yield, or, when the
\* start statement raises, the except clause.
TxEnterStep(conn, start, startOk, rollbackOk) ==
    IF ~start
    THEN [pc |-> "body", issued |-> <<>>, raised |-> "none"]
    ELSE IF conn = None
         \* executeSQL calls conn.cursor(): AttributeError; except: no rollback, raise
         THEN [pc |-> "done", issued |-> <<>>, raised |-> "AttributeError"]
         ELSE IF startOk
              THEN [pc |-> "body", issued |-> <<"start">>, raised |-> "none"]
              ELSE [pc |-> "done", issued |-> <<"start", "rollback">>,
                    raised |-> IF rollbackOk THEN "StartError" ELSE "RollbackError"]

\* A faulty variant of TxExitStep: the commit sits in a finally clause, so it also
\* follows the rollback of a failed body.
TxExitStepCommitFinally(conn, issued, bodyOk, commitOk, rollbackOk) ==
    IF bodyOk
    THEN IF conn = None
         THEN [pc |-> "done", issued |-> issued, raised |-> "AttributeError"]
         ELSE [pc |-> "done", issued |-> Append(issued, "commit"),
               raised |-> IF commitOk THEN "none" ELSE "CommitError"]
    ELSE IF conn = None
         THEN [pc |-> "done", issued |-> issued, raised |-> "BodyError"]
         ELSE [pc |-> "done", issued |-> issued \o <<"rollback", "commit">>,
               raised |-> IF rollbackOk THEN "BodyError" ELSE "RollbackError"]

\* The part run on leaving the with-statement: the else clause when the body
\* returned, the except clause when it raised.
TxExitStep(conn, issued, bodyOk, commitOk, rollbackOk) ==
    IF bodyOk
    THEN IF conn = None
         \* None.commit(): AttributeError, nothing reaches a connection
         THEN [pc |-> "done", issued |-> issued, raised |-> "AttributeError"]
         ELSE [pc |-> "done", issued |-> Append(issued, "commit"),
               raised |-> IF commitOk THEN "none" ELSE "CommitError"]
    ELSE IF conn = None
         THEN [pc |-> "done", issued |-> issued, raised |-> "BodyError"]
         ELSE [pc |-> "done", issued |-> Append(issued, "rollback"),
               raised |-> IF rollbackOk THEN "BodyError" ELSE "RollbackError"]

\* A whole invocation  with doTransaction(conn, start): body
doTransaction(conn, start, startOk, bodyOk, commitOk, rollbackOk) ==
    LET e == TxEnterStep(conn, start, startOk, rollbackOk)
    IN  IF e.pc = "done" THEN e
        ELSE TxExitStep(conn, e.issued, bodyOk, commitOk, rollbackOk)

Count(s, x) == Cardinality({i \in 1..Len(s) : s[i] = x})

----
\* The SQL statements KStore sends, on one table  tbl = [exists, rows].
\* rows holds the name column, one entry per row, in insertion order.

NoTable == [exists |-> FALSE, rows |-> <<>>]

\* CREATE TABLE IF NOT EXISTS
SqlCreate(tbl) ==
    IF tbl.exists THEN tbl ELSE [exists |-> TRUE, rows |-> <<>>]

\* DROP TABLE IF EXISTS
SqlDrop(tbl) == NoTable

\* SELECT id FROM table WHERE name = %s : the matching rows; ok is FALSE when
\* the table does not exist (MySQL error 1146).
SqlSelect(tbl, name) ==
    [ok |-> tbl.exists, tbl |-> tbl,
     n |-> IF tbl.exists THEN Count(tbl.rows, name) ELSE 0]

\* A faulty variant of SqlInsertIgnore: a plain insert into a table without the
\* UNIQUE KEY, which adds a row whether or not the name is already there.
SqlInsertAlways(tbl, name) ==
    IF ~tbl.exists THEN [ok |-> FALSE, tbl |-> tbl, n |-> 0]
    ELSE [ok |-> TRUE, tbl |-> [tbl EXCEPT !.rows = Append(@, name)], n |-> 1]

\* A faulty variant of SqlInsertIgnore: INSERT without IGNORE, which the
\* server refuses with a duplicate-key error when the name is already there.
SqlInsertNoIgnore(tbl, name) ==
    IF ~tbl.exists \/ name \in Range(tbl.rows) THEN [ok |-> FALSE, tbl |-> tbl, n |-> 0]
    ELSE [ok |-> TRUE, tbl |-> [tbl EXCEPT !.rows = Append(@, name)], n |-> 1]

\* INSERT IGNORE INTO table (name) VALUES (%s), name being a UNIQUE KEY
SqlInsertIgnore(tbl, name) ==
    IF ~tbl.exists THEN [ok |-> FALSE, tbl |-> tbl, n |-> 0]
    ELSE IF name \in Range(tbl.rows) THEN [ok |-> TRUE, tbl |-> tbl, n |-> 0]
    ELSE [ok |-> TRUE, tbl |-> [tbl EXCEPT !.rows = Append(@, name)], n |-> 1]

\* DELETE FROM table WHERE name = %s
SqlDelete(tbl, name) ==
    IF ~tbl.exists THEN [ok |-> FALSE, tbl |-> tbl, n |-> 0]
    ELSE [ok |-> TRUE,
          tbl |-> [tbl EXCEPT !.rows = SelectSeq(@, LAMBDA r : r # name)],
          n |-> Count(tbl.rows, name)]

----
\* KStore (dones.py:392-476).  Every method opens a connection of its own
\* (self.connect()) and closes it on the way out; the server is reachable and
\* START TRANSACTION, COMMIT and ROLLBACK succeed.  A statement on a table that
\* does not exist raises.  d is the server state, u the database, t the table.

\* with self.connect() as conn: with doTransaction(conn): <statement>
\* The statement's effect stays when the transaction commits.
KStoreTransact(d, u, t, stmt) ==
    LET r == doTransaction("conn", TRUE, TRUE, stmt.ok, TRUE, TRUE)
    IN  [db |-> IF "commit" \in Range(r.issued) THEN [d EXCEPT ![u][t] = stmt.tbl] ELSE d,
         raised |-> r.raised # "none",
         n |-> stmt.n]

KStoreCreate(d, u, t) ==
    KStoreTransact(d, u, t, [ok |-> TRUE, tbl |-> SqlCreate(d[u][t]), n |-> 0])

\* A faulty variant of KStoreDrop: the statement names no table of its own and
\* drops every table of the database.
KStoreDropDatabase(d, u, t) ==
    [db |-> [d EXCEPT ![u] = [x \in DOMAIN d[u] |-> NoTable]], raised |-> FALSE, n |-> 0]

KStoreDrop(d, u, t) ==
    KStoreTransact(d, u, t, [ok |-> TRUE, tbl |-> SqlDrop(d[u][t]), n |-> 0])

\* reset: self.drop().create() (dones.py:448-449); create() runs when drop()
\* has returned.
KStoreReset(d, u, t) ==
    LET dropped == KStoreDrop(d, u, t)
    IN  IF dropped.raised THEN dropped ELSE KStoreCreate(dropped.db, u, t)

\* exists: selectSQL outside any transaction; bool(results)
KStoreExists(d, u, t, key) ==
    LET r == SqlSelect(d[u][t], Serialize(key))
    IN  [db |-> d, raised |-> ~r.ok, ret |-> r.n > 0]

KStoreAdd(d, u, t, key) ==
    KStoreTransact(d, u, t, SqlInsertIgnore(d[u][t], Serialize(key)))

KStoreRemove(d, u, t, key) ==
    KStoreTransact(d, u, t, SqlDelete(d[u][t], Serialize(key)))

----
\* get (dones.py:26-39) and DbDones (dones.py:42-110).
\* A DbDones object is [ns, table, dburl, ready]: ns is the namespace it was
\* constructed with, table its KStore's table (the same string), dburl the
\* database its connections open.

Handles == 1..Len(facades)

\* dones.py:31-32
ResolveUrl(dburl) == IF dburl = None THEN DONES_DB_URL ELSE dburl

\* dones.py:34
CacheKey(ns, dburl) == PyTuple2(ns, ResolveUrl(dburl))

\* dones.py:35, "ns not in DONES_CACHE": the test is made with ns, a str, while
\* the keys stored are (ns, dburl) tuples.
NotCached(ns, dburl) == PyStr(ns) \notin DOMAIN DONES_CACHE

\* DbDones.__init__: no statement is sent, ready is False.
NewDbDones(ns, dburl) ==
    [ns |-> ns, table |-> ns, dburl |-> ResolveUrl(dburl), ready |-> FALSE]

dbUnchanged == backing = "db" /\ UNCHANGED <<backing, files, fileLast, tx, oc, procs, th, lp>>

Get(ns, dburl) ==
    LET ck == CacheKey(ns, dburl)
    IN  /\ NotCached(ns, dburl) => Len(facades) < MaxFacades
        /\ IF NotCached(ns, dburl)
           THEN /\ facades' = Append(facades, NewDbDones(DonesNs(ns), dburl))
                /\ DONES_CACHE' = [x \in DOMAIN DONES_CACHE \cup {ck} |->
                                     IF x = ck THEN Len(facades) + 1 ELSE DONES_CACHE[x]]
           ELSE UNCHANGED <<facades, DONES_CACHE>>
        /\ UNCHANGED <<db, dbLast, dbCleared>>
        /\ dbUnchanged

\* _get_k (dones.py:64-73) on the object f: the server state after it.  The
\* object's ready is True after it.
GetK(f, d) ==
    IF f.ready THEN d ELSE KStoreCreate(d, f.dburl, f.table).db

\* done(key) (dones.py:83-87): [db, raised, ret]
DbDones_done(f, d, key) == KStoreExists(GetK(f, d), f.dburl, f.table, key)

\* mark(key) (dones.py:89-93): [db, raised, n]
DbDones_mark(f, d, key) == KStoreAdd(GetK(f, d), f.dburl, f.table, key)

\* unmark(key) (dones.py:95-96): [db, raised, n]
DbDones_unmark(f, d, key) == KStoreRemove(GetK(f, d), f.dburl, f.table, key)

\* clear() (dones.py:75-81): [db, raised, n]; ready is False after it.
DbDones_clear(f, d) == KStoreDrop(GetK(f, d), f.dburl, f.table)

\* all(self.done(key) for key in keys) and any(...): done is called on the keys
\* in order and the generator stops at the first False (all) or True (any), or
\* at the first call that raises.  stopAt is the value that stops it.  The
\* first done() has run _get_k, so the later ones find ready True.
RECURSIVE DbScan(_, _, _, _, _)
DbScan(f, d, keys, i, stopAt) ==
    IF i > Len(keys) THEN [db |-> d, raised |-> FALSE, ret |-> ~stopAt]
    ELSE LET r == DbDones_done(f, d, keys[i])
         IN  IF r.raised THEN [db |-> r.db, raised |-> TRUE, ret |-> FALSE]
             ELSE IF r.ret = stopAt THEN [db |-> r.db, raised |-> FALSE, ret |-> stopAt]
             ELSE DbScan([f EXCEPT !.ready = TRUE], r.db, keys, i + 1, stopAt)

\* A faulty variant of DbDones_all_done: any() where all() was meant.
DbDones_all_done_any(f, d, keys) == DbScan(f, d, keys, 1, TRUE)

\* all_done(keys) (dones.py:98-103)
DbDones_all_done(f, d, keys) == DbScan(f, d, keys, 1, FALSE)

\* any_done(keys) (dones.py:105-110)
DbDones_any_done(f, d, keys) == DbScan(f, d, keys, 1, TRUE)

DbDone(h, key) ==
    /\ db' = DbDones_done(facades[h], db, key).db
    /\ facades' = [facades EXCEPT ![h].ready = TRUE]
    /\ UNCHANGED <<DONES_CACHE, dbLast, dbCleared>>
    /\ dbUnchanged

\* dbLast follows the calls that returned: a call that raised is not recorded.
DbMark(h, key) ==
    LET f == facades[h]
        r == DbDones_mark(f, db, key)
    IN  /\ db' = r.db
        /\ facades' = [facades EXCEPT ![h].ready = TRUE]
        /\ dbLast' = IF r.raised THEN dbLast
                       ELSE [dbLast EXCEPT ![f.dburl][f.table][key] = "mark"]
        /\ UNCHANGED <<DONES_CACHE, dbCleared>>
        /\ dbUnchanged

DbUnmark(h, key) ==
    LET f == facades[h]
        r == DbDones_unmark(f, db, key)
    IN  /\ db' = r.db
        /\ facades' = [facades EXCEPT ![h].ready = TRUE]
        /\ dbLast' = IF r.raised THEN dbLast
                       ELSE [dbLast EXCEPT ![f.dburl][f.table][key] = "unmark"]
        /\ UNCHANGED <<DONES_CACHE, dbCleared>>
        /\ dbUnchanged

\* dones.py:80-81: ready is reset after drop() has returned.
DbClear(h) ==
    LET f == facades[h]
        r == DbDones_clear(f, db)
    IN  /\ db' = r.db
        /\ facades' = [facades EXCEPT ![h].ready = r.raised]
        /\ dbLast' = [dbLast EXCEPT ![f.dburl][f.table] = NoHistory]
        /\ dbCleared' = [dbCleared EXCEPT ![f.dburl][f.table] = TRUE]
        /\ UNCHANGED DONES_CACHE
        /\ dbUnchanged

\* reset() called on the store of the object (dones.py:448-449): the table is
\* there and empty afterwards; _get_k does not run and ready is not touched.
KReset(h) ==
    LET f == facades[h]
    IN  /\ db' = KStoreReset(db, f.dburl, f.table).db
        /\ dbLast' = [dbLast EXCEPT ![f.dburl][f.table] = NoHistory]
        /\ dbCleared' = [dbCleared EXCEPT ![f.dburl][f.table] = TRUE]
        /\ UNCHANGED <<DONES_CACHE, facades>>
        /\ dbUnchanged

\* With no key, done() is never called and _get_k does not run.
DbAllDone(h, keys) ==
    /\ db' = DbDones_all_done(facades[h], db, keys).db
    /\ facades' = IF keys = <<>> THEN facades ELSE [facades EXCEPT ![h].ready = TRUE]
    /\ UNCHANGED <<DONES_CACHE, dbLast, dbCleared>>
    /\ dbUnchanged

DbAnyDone(h, keys) ==
    /\ db' = DbDones_any_done(facades[h], db, keys).db
    /\ facades' = IF keys = <<>> THEN facades ELSE [facades EXCEPT ![h].ready = TRUE]
    /\ UNCHANGED <<DONES_CACHE, dbLast, dbCleared>>
    /\ dbUnchanged

----
\* FileJSONAppendDones (dones.py:113-257).  A file is [exists, content], content
\* being its characters.

Paths == {"p1", "p2"}

NoFile == [exists |-> FALSE, content |-> <<>>]

\* dones.py:152-153
DoneLine(key) == <<"d", "o", "n", "e", " ">> \o Serialize(key) \o <<"\n">>

\* dones.py:155-156
UndoneLine(key) == <<"u", "n", "d", "o", " ">> \o Serialize(key) \o <<"\n">>

\* _persist (dones.py:158-161): open(path, 'a') creates the file when it is
\* missing and writes at its end.
Persist(f, msg) == [exists |-> TRUE, content |-> f.content \o msg]

\* for line in fh: the lines of the file, each with its newline; a last line
\* without a newline is a line too.
RECURSIVE SplitLines(_, _, _, _)
SplitLines(c, i, cur, acc) ==
    IF i > Len(c) THEN (IF cur = <<>> THEN acc ELSE Append(acc, cur))
    ELSE IF c[i] = "\n" THEN SplitLines(c, i + 1, <<>>, Append(acc, Append(cur, c[i])))
    ELSE SplitLines(c, i + 1, Append(cur, c[i]), acc)

Lines(f) == SplitLines(f.content, 1, <<>>, <<>>)

\* A faulty variant of ScanDone: the scan returns at the first line of the key
\* instead of reading on to the last.
RECURSIVE ScanDoneFirst(_, _, _, _, _)
ScanDoneFirst(lines, i, is_done, done_line, undone_line) ==
    IF i > Len(lines) THEN is_done
    ELSE IF lines[i] = done_line THEN TRUE
    ELSE IF lines[i] = undone_line THEN FALSE
    ELSE ScanDoneFirst(lines, i + 1, is_done, done_line, undone_line)

\* dones.py:209-213
RECURSIVE ScanDone(_, _, _, _, _)
ScanDone(lines, i, is_done, done_line, undone_line) ==
    IF i > Len(lines) THEN is_done
    ELSE IF lines[i] = done_line
         THEN ScanDone(lines, i + 1, TRUE, done_line, undone_line)
    ELSE IF lines[i] = undone_line
         THEN ScanDone(lines, i + 1, FALSE, done_line, undone_line)
    ELSE ScanDone(lines, i + 1, is_done, done_line, undone_line)

\* done(key) (dones.py:195-215)
FileDones_done(f, key) ==
    IF ~f.exists THEN FALSE
    ELSE ScanDone(Lines(f), 1, FALSE, DoneLine(key), UndoneLine(key))

\* A faulty variant of SerializedKeyOf: the slice starts one character late,
\* as it would for a prefix taken to be six characters long.
SerializedKeyOfLate(line) == SubSeq(line, 7, Len(line) - 1)

\* line[5:-1]
SerializedKeyOf(line) == SubSeq(line, 6, Len(line) - 1)

\* status[k] = v on a dict
DictSet(status, k, v) ==
    [x \in DOMAIN status \cup {k} |-> IF x = k THEN v ELSE status[x]]

\* set([self._done_line(key) for key in keys]) (dones.py:230)
DoneLines(keys) == {DoneLine(keys[i]) : i \in 1..Len(keys)}

\* set([self._undone_line(key) for key in keys]) (dones.py:231)
UndoneLines(keys) == {UndoneLine(keys[i]) : i \in 1..Len(keys)}

\* dones.py:235-239, one pass of the loop of are_done()
StatusLine(status, line, done_lines, undone_lines) ==
    IF line \in done_lines THEN DictSet(status, SerializedKeyOf(line), TRUE)
    ELSE IF line \in undone_lines THEN DictSet(status, SerializedKeyOf(line), FALSE)
    ELSE status

\* dones.py:240-241: status.get(sk, False) for the serialized keys
StatusList(status, keys) ==
    [i \in 1..Len(keys) |->
        IF Serialize(keys[i]) \in DOMAIN status
        THEN status[Serialize(keys[i])] ELSE FALSE]

\* dones.py:233-239
RECURSIVE ScanStatus(_, _, _, _, _)
ScanStatus(lines, i, status, done_lines, undone_lines) ==
    IF i > Len(lines) THEN status
    ELSE ScanStatus(lines, i + 1, StatusLine(status, lines[i], done_lines, undone_lines),
                    done_lines, undone_lines)

\* are_done(keys) (dones.py:217-241)
FileDones_are_done(f, keys) ==
    IF ~f.exists THEN [i \in 1..Len(keys) |-> FALSE]
    ELSE StatusList(ScanStatus(Lines(f), 1, <<>>, DoneLines(keys), UndoneLines(keys)), keys)

\* all(self.done(key) for key in keys) (dones.py:243-249)
RECURSIVE FileAllFrom(_, _, _)
FileAllFrom(f, keys, i) ==
    IF i > Len(keys) THEN TRUE
    ELSE IF ~FileDones_done(f, keys[i]) THEN FALSE
    ELSE FileAllFrom(f, keys, i + 1)

FileDones_all_done(f, keys) == FileAllFrom(f, keys, 1)

\* any(list)
RECURSIVE PyAny(_, _)
PyAny(bs, i) ==
    IF i > Len(bs) THEN FALSE
    ELSE IF bs[i] THEN TRUE
    ELSE PyAny(bs, i + 1)

\* any(self.are_done(keys)) (dones.py:251-257)
FileDones_any_done(f, keys) == PyAny(FileDones_are_done(f, keys), 1)

\* A faulty variant of FileDones_clear: the file is truncated to its first
\* line instead of being removed.
FileDones_clear_keep(f) ==
    IF f.exists /\ Lines(f) # <<>>
    THEN [exists |-> TRUE, content |-> Lines(f)[1]] ELSE f

\* clear() (dones.py:170-175)
FileDones_clear(f) == IF f.exists THEN NoFile ELSE f

RECURSIVE LinesIn(_)
LinesIn(ps) ==
    IF ps = {} THEN 0
    ELSE LET p == CHOOSE x \in ps : TRUE
         IN  Len(Lines(files[p])) + LinesIn(ps \ {p})

\* The lines of the files of all paths and of a removed file still open.
TotalLines == LinesIn(Paths) + Len(Lines(lp.snapshot))

logUnchanged ==
    backing = "log" /\ UNCHANGED <<backing, DONES_CACHE, facades, db, dbLast, dbCleared, tx,
                               oc, procs, th, lp>>

\* mark(key) (dones.py:177-183)
FileMark(p, key) ==
    /\ TotalLines < MaxLines
    /\ files' = [files EXCEPT ![p] = Persist(@, DoneLine(key))]
    /\ fileLast' = [fileLast EXCEPT ![p][key] = "mark"]
    /\ logUnchanged

\* unmark(key) (dones.py:185-193)
FileUnmark(p, key) ==
    /\ TotalLines < MaxLines
    /\ files' = [files EXCEPT ![p] = Persist(@, UndoneLine(key))]
    /\ fileLast' = [fileLast EXCEPT ![p][key] = "unmark"]
    /\ logUnchanged

FileClear(p) ==
    /\ files' = [files EXCEPT ![p] = FileDones_clear(@)]
    /\ fileLast' = [fileLast EXCEPT ![p] = NoHistory]
    /\ logUnchanged

----
\* doTransaction, one step at a time: entering the with-statement, then leaving
\* it after the body.  The inputs are what the connection does: whether the
\* start statement, the body, the commit and the rollback succeed.

Conns == {"conn", None}

TxIdle == [pc |-> "idle", conn |-> "conn", issued |-> <<>>, raised |-> "none",
           count |-> 0, history |-> <<>>]

txUnchanged == UNCHANGED <<backing, DONES_CACHE, facades, db, files, dbLast,
                           dbCleared, fileLast, oc,
                           procs, th, lp>>

TxEnter(conn, start, startOk, rollbackOk) ==
    /\ tx.pc = "idle"
    /\ tx.count < MaxTx
    /\ LET e == TxEnterStep(conn, start, startOk, rollbackOk)
       IN  tx' = [tx EXCEPT !.pc = e.pc, !.conn = conn,
                            !.issued = e.issued, !.raised = e.raised]
    /\ txUnchanged

TxExit(bodyOk, commitOk, rollbackOk) ==
    /\ tx.pc = "body"
    /\ LET r == TxExitStep(tx.conn, tx.issued, bodyOk, commitOk, rollbackOk)
       IN  tx' = [tx EXCEPT !.pc = r.pc, !.issued = r.issued, !.raised = r.raised]
    /\ txUnchanged

\* The caller goes on; the next invocation may start.
TxReturn ==
    /\ tx.pc = "done"
    /\ tx' = [tx EXCEPT !.pc = "idle", !.count = @ + 1,
                        !.history = Append(@, tx.raised)]
    /\ txUnchanged

----
\* open_conn (dones.py:265-283), one step at a time.  The recursion keeps
\* retries, the attempts left after this one.  attempts lists the outcome of
\* each MySQLdb.connect so far; result is the attempt whose connection is
\* returned, 0 when there is none.

OcIdle == [pc |-> "idle", r0 |-> 0, retries |-> 0, attempts |-> <<>>, sleeps |-> 0,
           result |-> 0, raised |-> "none", calls |-> 0, history |-> <<>>]

ocUnchanged == UNCHANGED <<backing, DONES_CACHE, facades, db, files, dbLast,
                           dbCleared, fileLast, tx, procs, th, lp>>

\* dones.py:274, assert retries >= 0
OcAssert(retries) == IF retries >= 0 THEN "try" ELSE "raised"

\* A faulty variant of OcAfterConnect: the test lets through retries = 0, one
\* attempt too many.
OcAfterConnectOneMore(retries, ok) ==
    IF ok THEN "returned" ELSE IF retries >= 0 THEN "sleep" ELSE "raised"

\* dones.py:276-283: where open_conn goes after MySQLdb.connect returned (ok)
\* or raised.
OcAfterConnect(retries, ok) ==
    IF ok THEN "returned" ELSE IF retries > 0 THEN "sleep" ELSE "raised"

\* The call open_conn(..., retries = r)
OcCall(r) ==
    /\ oc.pc = "idle"
    /\ oc.calls < MaxCalls
    /\ oc' = [oc EXCEPT !.pc = OcAssert(r), !.r0 = r, !.retries = r,
                        !.attempts = <<>>, !.sleeps = 0, !.result = 0,
                        !.raised = IF OcAssert(r) = "raised" THEN "AssertionError"
                                   ELSE "none"]
    /\ ocUnchanged

\* dones.py:277: MySQLdb.connect returns a connection (ok) or raises.
OcConnect(ok) ==
    /\ oc.pc = "try"
    /\ LET next == OcAfterConnect(oc.retries, ok)
       IN  oc' = [oc EXCEPT !.pc = next,
                            !.attempts = Append(@, ok),
                            !.result = IF next = "returned" THEN Len(oc.attempts) + 1 ELSE 0,
                            !.raised = IF next = "raised" THEN "ConnectError" ELSE "none"]
    /\ ocUnchanged

\* dones.py:280-281: time.sleep(sleep), then open_conn(..., retries - 1, sleep)
OcSleep ==
    /\ oc.pc = "sleep"
    /\ oc' = [oc EXCEPT !.pc = OcAssert(oc.retries - 1),
                        !.retries = @ - 1,
                        !.sleeps = @ + 1,
                        !.raised = IF OcAssert(oc.retries - 1) = "raised"
                                   THEN "AssertionError" ELSE "none"]
    /\ ocUnchanged

\* The caller has the connection or the exception; the next call may start.
OcReturn ==
    /\ oc.pc \in {"returned", "raised"}
    /\ oc' = [oc EXCEPT !.pc = "idle", !.calls = @ + 1,
                        !.history = Append(@, <<oc.pc, Len(oc.attempts)>>)]
    /\ ocUnchanged

----
\* Processes on one table, each with a DbDones object of its own, one
\* statement at a time: _get_k and the KStore methods (dones.py:64-96,
\* 430-476) over make_closing_connect (dones.py:309-320), open_conn with
\* retries = 1 (dones.py:55-56) and doTransaction.  The server is MySQL with
\* InnoDB tables: a row written in an open transaction is locked until the
\* transaction ends, a statement on the row by another session waits for it,
\* and CREATE/DROP TABLE take effect at once and wait for the sessions that
\* have used the table in a transaction still open.

Procs == {1, 2, 3}

\* the processes that use every method; the third only takes part in the
\* concurrent inserts
HandleProcs == {1, 2}

PUrl == DONES_DB_URL
PTable == DonesNs("A")

\* dones.py:56, retries=1
DbRetries == 1

NoPending == [kind |-> "none", name |-> <<>>, n |-> 0]

\* A process before DbDones(...) is called
PNew == [pc |-> "new", h |-> NewDbDones(PTable, None), call |-> "none", key |-> KInt1,
         kop |-> "none", retries |-> 0, conns |-> 0, inTx |-> FALSE, failed |-> "none",
         pending |-> NoPending, mdl |-> FALSE, ret |-> FALSE]

psUnchanged == UNCHANGED <<backing, DONES_CACHE, facades, files, dbLast, dbCleared,
                           fileLast, tx, oc, th, lp>>

\* The KStore method a DbDones method calls after _get_k (dones.py:75-96)
KopOf(call) ==
    CASE call = "done" -> "exists"
      [] call = "mark" -> "add"
      [] call = "unmark" -> "remove"
      [] call = "clear" -> "drop"

\* A faulty variant of FirstKop: _get_k without the ready flag, create() on
\* every call.
FirstKopAlways(h, call) == "create"

\* _get_k (dones.py:69-70): create() first when the object is not ready
FirstKop(h, call) == IF ~h.ready THEN "create" ELSE KopOf(call)

\* exists runs its SELECT on the connection, outside doTransaction
\* (dones.py:453-456); the other methods enter doTransaction first.
AfterConnected(kop) == IF kop = "exists" THEN "stmt" ELSE "begin"

\* A faulty variant of AfterStmt: the with-statement of doTransaction is left
\* out, so the connection is closed with the transaction still open.
AfterStmtNoEnd(kop) == "close"

\* Where a method goes after its statement returned or raised: out of
\* doTransaction (commit or rollback), exists straight to closing.
AfterStmt(kop) == IF kop = "exists" THEN "close" ELSE "end"

\* The lock the transaction of a statement holds on a name of the UNIQUE KEY
\* until it ends: exclusive on the row it has inserted or deleted, shared on
\* the row an INSERT IGNORE found there, on the gap when a DELETE found none.
LockHeld(pending) ==
    IF pending.kind = "none" THEN "none"
    ELSE IF pending.n > 0 THEN "X"
    ELSE IF pending.kind = "ins" THEN "S"
    ELSE "gap"

\* The lock a statement asks for, given the committed rows.
LockWanted(kop, tbl, name) ==
    IF kop = "add" THEN (IF name \in Range(tbl.rows) THEN "S" ELSE "insert")
    ELSE IF name \in Range(tbl.rows) THEN "X" ELSE "gap"

\* An exclusive lock makes every other statement on the name wait, a shared
\* lock a delete of the row, a gap lock an insert into the gap; shared locks go
\* together, and so do gap locks.
LockConflict(wanted, held) ==
    \/ held = "X"
    \/ held = "S" /\ wanted = "X"
    \/ held = "gap" /\ wanted = "insert"

\* Another session holds a lock on this name that the statement of p must
\* wait for.
RowBlocked(p, name) ==
    \E q \in Procs \ {p} :
        /\ procs[q].pending.name = name
        /\ LockConflict(LockWanted(procs[p].kop, db[PUrl][PTable], name),
                        LockHeld(procs[q].pending))

\* Another session has used the table in a transaction that is still open.
DdlBlocked(p) == \E q \in Procs \ {p} : procs[q].mdl

\* What COMMIT makes of the table: the effect the statement had in its
\* transaction.
ApplyPending(tbl, pending) ==
    CASE pending.kind = "ins" /\ pending.n > 0 ->
             [tbl EXCEPT !.rows = Append(@, pending.name)]
      [] pending.kind = "del" ->
             [tbl EXCEPT !.rows = SelectSeq(@, LAMBDA r : r # pending.name)]
      [] OTHER -> tbl

\* DbDones(ns) (dones.py:48-62)
PConstruct(p) ==
    /\ procs[p].pc = "new"
    /\ procs' = [procs EXCEPT ![p].pc = "idle", ![p].h = NewDbDones(PTable, None)]
    /\ UNCHANGED db
    /\ psUnchanged

\* A call of done, mark, unmark or clear: _get_k, then the method of KStore.
PCall(p, call, key) ==
    /\ procs[p].pc = "idle"
    /\ procs' = [procs EXCEPT ![p].call = call, ![p].key = key,
                        ![p].kop = FirstKop(procs[p].h, call),
                        ![p].pc = "connect", ![p].retries = DbRetries,
                        ![p].failed = "none", ![p].ret = FALSE]
    /\ UNCHANGED db
    /\ psUnchanged

\* KStore.reset() called on the store of the object, self.drop().create()
\* (dones.py:448-449): drop() first, without _get_k.
PReset(p) ==
    /\ procs[p].pc = "idle"
    /\ procs' = [procs EXCEPT ![p].call = "reset", ![p].key = KInt1,
                        ![p].kop = "drop",
                        ![p].pc = "connect", ![p].retries = DbRetries,
                        ![p].failed = "none", ![p].ret = FALSE]
    /\ UNCHANGED db
    /\ psUnchanged

\* self.connect(): contextlib.closing(open_conn()), one attempt of open_conn
PConnect(p, ok) ==
    /\ procs[p].pc = "connect"
    /\ LET next == OcAfterConnect(procs[p].retries, ok)
       IN  procs' = [procs EXCEPT
                    ![p].pc = CASE next = "returned" -> AfterConnected(procs[p].kop)
                                [] next = "sleep" -> "sleep"
                                [] next = "raised" -> "ret",
                    ![p].conns = IF next = "returned" THEN @ + 1 ELSE @,
                    ![p].failed = IF next = "raised" THEN "ConnectError" ELSE @]
    /\ UNCHANGED db
    /\ psUnchanged

\* time.sleep, then the second attempt
PSleep(p) ==
    /\ procs[p].pc = "sleep"
    /\ procs' = [procs EXCEPT ![p].pc = IF OcAssert(procs[p].retries - 1) = "try"
                                   THEN "connect" ELSE "ret",
                        ![p].retries = @ - 1,
                        ![p].failed = IF OcAssert(procs[p].retries - 1) = "try"
                                      THEN @ ELSE "AssertionError"]
    /\ UNCHANGED db
    /\ psUnchanged

\* with doTransaction(conn): START TRANSACTION
PBegin(p) ==
    /\ procs[p].pc = "begin"
    /\ LET e == TxEnterStep("conn", TRUE, TRUE, TRUE)
       IN  procs' = [procs EXCEPT ![p].pc = IF e.pc = "body" THEN "stmt" ELSE "close",
                            ![p].inTx = (e.pc = "body")]
    /\ UNCHANGED db
    /\ psUnchanged

\* The statement of the method.  A statement the server makes wait is not
\* taken until it can go on.
PStmt(p) ==
    /\ procs[p].pc = "stmt"
    /\ LET kop == procs[p].kop
           tbl == db[PUrl][PTable]
           name == Serialize(procs[p].key)
           next == AfterStmt(kop)
       IN  CASE kop = "create" ->
                    /\ ~DdlBlocked(p)
                    /\ db' = [db EXCEPT ![PUrl][PTable] = SqlCreate(tbl)]
                    /\ procs' = [procs EXCEPT ![p].pc = next]
             [] kop = "drop" ->
                    /\ ~DdlBlocked(p)
                    /\ db' = [db EXCEPT ![PUrl][PTable] = SqlDrop(tbl)]
                    /\ procs' = [procs EXCEPT ![p].pc = next]
             [] kop = "exists" ->
                    LET r == SqlSelect(tbl, name)
                    IN  /\ UNCHANGED db
                        /\ procs' = [procs EXCEPT ![p].pc = next,
                                            ![p].ret = r.ok /\ r.n > 0,
                                            ![p].mdl = r.ok,
                                            ![p].failed = IF r.ok THEN "none" ELSE "NoTable"]
             [] kop = "add" ->
                    LET r == SqlInsertIgnore(tbl, name)
                    IN  /\ r.ok => ~RowBlocked(p, name)
                        /\ UNCHANGED db
                        /\ procs' = [procs EXCEPT ![p].pc = next,
                                            ![p].mdl = r.ok,
                                            ![p].pending =
                                                IF r.ok THEN [kind |-> "ins", name |-> name, n |-> r.n]
                                                ELSE NoPending,
                                            ![p].failed = IF r.ok THEN "none" ELSE "NoTable"]
             [] kop = "remove" ->
                    LET r == SqlDelete(tbl, name)
                    IN  /\ r.ok => ~RowBlocked(p, name)
                        /\ UNCHANGED db
                        /\ procs' = [procs EXCEPT ![p].pc = next,
                                            ![p].mdl = r.ok,
                                            ![p].pending =
                                                IF r.ok THEN [kind |-> "del", name |-> name, n |-> r.n]
                                                ELSE NoPending,
                                            ![p].failed = IF r.ok THEN "none" ELSE "NoTable"]
    /\ psUnchanged

\* Leaving doTransaction: commit when the statement returned, rollback when it
\* raised.
PEnd(p) ==
    /\ procs[p].pc = "end"
    /\ LET r == TxExitStep("conn", <<"start">>, procs[p].failed = "none", TRUE, TRUE)
       IN  /\ db' = IF "commit" \in Range(r.issued)
                    THEN [db EXCEPT ![PUrl][PTable] = ApplyPending(@, procs[p].pending)]
                    ELSE db
           /\ procs' = [procs EXCEPT ![p].pc = "close", ![p].inTx = FALSE,
                               ![p].pending = NoPending, ![p].mdl = FALSE]
    /\ psUnchanged

\* Leaving closing(conn): conn.close()
PClose(p) ==
    /\ procs[p].pc = "close"
    /\ procs' = [procs EXCEPT ![p].pc = "ret", ![p].conns = @ - 1, ![p].mdl = FALSE,
                        ![p].inTx = FALSE, ![p].pending = NoPending]
    /\ UNCHANGED db
    /\ psUnchanged

\* The KStore method has returned or raised.  After create() _get_k sets ready
\* and the method proper starts; after drop() clear resets ready; an exception
\* leaves the DbDones method at once.
PRet(p) ==
    /\ procs[p].pc = "ret"
    /\ procs[p].call # "reset"
    /\ LET q == procs[p]
       IN  procs' = [procs EXCEPT ![p] =
                 IF q.failed # "none" THEN [q EXCEPT !.pc = "idle", !.kop = "none"]
                 ELSE IF q.kop = "create"
                      THEN [q EXCEPT !.h.ready = TRUE, !.kop = KopOf(q.call),
                                     !.pc = "connect", !.retries = DbRetries]
                 ELSE IF q.kop = "drop"
                      THEN [q EXCEPT !.h.ready = FALSE, !.pc = "idle", !.kop = "none"]
                 ELSE [q EXCEPT !.pc = "idle", !.kop = "none"]]
    /\ UNCHANGED db
    /\ psUnchanged

\* A method of reset() has returned or raised (dones.py:448-449): create()
\* follows the drop() that returned, and reset() returns the store when
\* create() has; an exception leaves reset() at once.  The ready flag of the
\* DbDones is not touched.
PResetRet(p) ==
    /\ procs[p].pc = "ret"
    /\ procs[p].call = "reset"
    /\ LET q == procs[p]
       IN  procs' = [procs EXCEPT ![p] =
                 IF q.failed = "none" /\ q.kop = "drop"
                 THEN [q EXCEPT !.kop = "create", !.pc = "connect", !.retries = DbRetries]
                 ELSE [q EXCEPT !.pc = "idle", !.kop = "none"]]
    /\ UNCHANGED db
    /\ psUnchanged

----
\* get (dones.py:26-39) called from several threads of one process.  A thread
\* can be switched out between any two lines; the code takes no lock.

Threads == {1, 2}

ThIdle == [pc |-> "idle", ns |-> "A", dburl |-> DONES_DB_URL, result |-> 0]

thUnchanged == UNCHANGED <<backing, db, files, dbLast, dbCleared, fileLast, tx, oc, procs, lp>>

\* dones.py:31-35: the cache key and the membership test
GetTest(t, ns, dburl) ==
    /\ th[t].pc \in {"idle", "done"}
    /\ th' = [th EXCEPT ![t] = [pc |-> IF NotCached(ns, dburl) THEN "construct" ELSE "return",
                                ns |-> ns, dburl |-> ResolveUrl(dburl), result |-> 0]]
    /\ UNCHANGED <<DONES_CACHE, facades>>
    /\ thUnchanged

\* dones.py:36-37: DONES_CACHE[cache_key] = DbDones(ns=dones_ns, dburl=dburl)
GetConstruct(t) ==
    /\ th[t].pc = "construct"
    /\ Len(facades) < MaxFacades
    /\ LET ck == CacheKey(th[t].ns, th[t].dburl)
       IN  /\ facades' = Append(facades, NewDbDones(DonesNs(th[t].ns), th[t].dburl))
           /\ DONES_CACHE' = [x \in DOMAIN DONES_CACHE \cup {ck} |->
                                IF x = ck THEN Len(facades) + 1 ELSE DONES_CACHE[x]]
    /\ th' = [th EXCEPT ![t].pc = "return"]
    /\ thUnchanged

\* dones.py:39: return DONES_CACHE[cache_key]
GetReturn(t) ==
    /\ th[t].pc = "return"
    /\ th' = [th EXCEPT ![t].pc = "done",
                        ![t].result = DONES_CACHE[CacheKey(th[t].ns, th[t].dburl)]]
    /\ UNCHANGED <<DONES_CACHE, facades>>
    /\ thUnchanged

----
\* A process inside done, are_done or clear of FileJSONAppendDones
\* (dones.py:170-175, 195-241), one system call at a time, while other
\* processes append to the file and clear it.

LogPath == "p1"

LpIdle == [pc |-> "idle", op |-> "none", key |-> KInt1, keys |-> <<>>, pos |-> 0,
           openLen |-> 0, is_done |-> FALSE, status |-> <<>>, detached |-> FALSE,
           snapshot |-> NoFile, cleared |-> FALSE, ret |-> FALSE, rets |-> <<>>,
           raised |-> "none"]

\* What a call leaves behind when it has returned or raised.
LpReturned(op, ret, rets, raised) ==
    [LpIdle EXCEPT !.op = op, !.ret = ret, !.rets = rets, !.raised = raised]

lpUnchanged ==
    backing = "log" /\ UNCHANGED <<backing, DONES_CACHE, facades, db, dbLast, dbCleared, tx,
                               oc, procs, th>>

\* What the open file object reads: the file of the path, or, once that file
\* has been removed, the removed file as it was.
LpView == IF lp.detached THEN lp.snapshot ELSE files[LogPath]

\* A faulty variant of ScanLine: a line of the key sets is_done whichever of
\* the two lines it is.
ScanLineEither(is_done, line, done_line, undone_line) ==
    IF line = done_line \/ line = undone_line THEN TRUE ELSE is_done

\* dones.py:210-213, one pass of the loop of done()
ScanLine(is_done, line, done_line, undone_line) ==
    IF line = done_line THEN TRUE
    ELSE IF line = undone_line THEN FALSE
    ELSE is_done

\* os.path.exists(self.path) at the head of done, are_done and clear
\* (dones.py:174, 202, 227), and the return when the file is not there.
LCheck(op, key, keys) ==
    /\ lp.pc = "idle"
    /\ lp' = IF ~files[LogPath].exists
             THEN LpReturned(op, FALSE,
                             IF op = "are_done" THEN [i \in 1..Len(keys) |-> FALSE] ELSE <<>>,
                             "none")
             ELSE [LpIdle EXCEPT !.op = op, !.key = key, !.keys = keys,
                                 !.pc = IF op = "clear" THEN "remove" ELSE "open"]
    /\ UNCHANGED <<files, fileLast>>
    /\ lpUnchanged

\* open(self.path) (dones.py:208, 233): IOError when the file is not there.
\* Nothing is read yet: is_done is False and status is empty.  openLen keeps
\* the number of lines the file of done() has when it is opened.
LOpen ==
    /\ lp.pc = "open"
    /\ lp' = IF ~files[LogPath].exists
             THEN LpReturned(lp.op, FALSE, <<>>, "IOError")
             ELSE [lp EXCEPT !.pc = "read", !.pos = 0,
                             !.openLen = IF lp.op = "done" THEN Len(Lines(files[LogPath]))
                                         ELSE 0]
    /\ UNCHANGED <<files, fileLast>>
    /\ lpUnchanged

\* for line in fh: the next line of the open file, or the end of the file and
\* the return; the loop of done() (dones.py:209-215) and the loop of are_done()
\* with the list it returns (dones.py:234-241).
LRead ==
    /\ lp.pc = "read"
    /\ LET lines == Lines(LpView)
       IN  lp' = IF lp.pos < Len(lines)
                 THEN IF lp.op = "are_done"
                      THEN [lp EXCEPT !.pos = @ + 1,
                                      !.status = StatusLine(@, lines[lp.pos + 1],
                                                            DoneLines(lp.keys),
                                                            UndoneLines(lp.keys))]
                      ELSE [lp EXCEPT !.pos = @ + 1,
                                      !.is_done = ScanLine(@, lines[lp.pos + 1],
                                                          DoneLine(lp.key),
                                                          UndoneLine(lp.key))]
                 ELSE IF lp.op = "are_done"
                      THEN LpReturned(lp.op, FALSE, StatusList(lp.status, lp.keys), "none")
                      ELSE LpReturned(lp.op, lp.is_done, <<>>, "none")
    /\ UNCHANGED <<files, fileLast>>
    /\ lpUnchanged

\* os.remove(self.path) (dones.py:175): OSError when the file is not there.
LRemove ==
    /\ lp.pc = "remove"
    /\ IF files[LogPath].exists
       THEN /\ files' = [files EXCEPT ![LogPath] = NoFile]
            /\ fileLast' = [fileLast EXCEPT ![LogPath] = NoHistory]
            /\ lp' = LpReturned(lp.op, FALSE, <<>>, "none")
       ELSE /\ UNCHANGED <<files, fileLast>>
            /\ lp' = LpReturned(lp.op, FALSE, <<>>, "OSError")
    /\ lpUnchanged

\* clear() run by another process.  A file object that has the file open goes
\* on reading the removed file.
LOtherClear ==
    /\ files' = [files EXCEPT ![LogPath] = FileDones_clear(@)]
    /\ fileLast' = [fileLast EXCEPT ![LogPath] = NoHistory]
    /\ lp' = IF lp.pc = "idle" \/ ~files[LogPath].exists THEN lp
             ELSE IF lp.pc = "read" /\ ~lp.detached
                  THEN [lp EXCEPT !.cleared = TRUE, !.detached = TRUE,
                                  !.snapshot = files[LogPath]]
                  ELSE [lp EXCEPT !.cleared = TRUE]
    /\ lpUnchanged

----
\* The specifications

InitStore ==
    /\ DONES_CACHE = <<>>
    /\ facades = <<>>
    /\ db = [u \in Urls |-> [t \in Tables |-> NoTable]]
    /\ dbLast = [u \in Urls |-> [t \in Tables |-> NoHistory]]
    /\ dbCleared = [u \in Urls |-> [t \in Tables |-> FALSE]]
    /\ fileLast = [p \in Paths |-> NoHistory]
    /\ tx = TxIdle
    /\ oc = OcIdle
    /\ procs = [p \in Procs |-> PNew]
    /\ th = [t \in Threads |-> ThIdle]
    /\ lp = LpIdle

\* A process works on the relational store or on log files; a log file is
\* missing or empty to begin with.
Init ==
    /\ InitStore
    /\ \/ backing = "db" /\ files = [p \in Paths |-> NoFile]
       \/ backing = "log" /\ files \in [Paths -> {NoFile, [exists |-> TRUE, content |-> <<>>]}]

Next ==
    \/ \E ns \in Namespaces, dburl \in Urls \cup {None} : Get(ns, dburl)
    \/ \E h \in Handles, key \in Keys : DbDone(h, key)
    \/ \E h \in Handles, key \in Keys : DbMark(h, key)
    \/ \E h \in Handles, key \in Keys : DbUnmark(h, key)
    \/ \E h \in Handles : DbClear(h)
    \/ \E h \in Handles : KReset(h)
    \/ \E h \in Handles, keys \in KeyLists : DbAllDone(h, keys)
    \/ \E h \in Handles, keys \in KeyLists : DbAnyDone(h, keys)
    \/ \E p \in Paths, key \in Keys : FileMark(p, key)
    \/ \E p \in Paths, key \in Keys : FileUnmark(p, key)
    \/ \E p \in Paths : FileClear(p)

Spec == Init /\ [][Next]_vars

InitTx ==
    /\ InitStore
    /\ backing = "tx"
    /\ files = [p \in Paths |-> NoFile]

NextTx ==
    \/ \E conn \in Conns, start \in BOOLEAN, startOk \in BOOLEAN, rollbackOk \in BOOLEAN :
           TxEnter(conn, start, startOk, rollbackOk)
    \/ \E bodyOk \in BOOLEAN, commitOk \in BOOLEAN, rollbackOk \in BOOLEAN :
           TxExit(bodyOk, commitOk, rollbackOk)
    \/ TxReturn

SpecTx == InitTx /\ [][NextTx]_vars

\* open_conn alone.  MySQLdb.connect returns or raises and time.sleep ends, so
\* a call that has started keeps taking steps.
InitConn ==
    /\ InitStore
    /\ backing = "conn"
    /\ files = [p \in Paths |-> NoFile]

NextConn ==
    \/ \E r \in -1..MaxRetries : OcCall(r)
    \/ \E ok \in BOOLEAN : OcConnect(ok)
    \/ OcSleep
    \/ OcReturn

\* Two processes, each constructing a DbDones on the same table and calling
\* its methods, the connection attempts failing or not.
InitProc ==
    /\ InitStore
    /\ backing = "proc"
    /\ files = [p \in Paths |-> NoFile]

NextProc ==
    \/ \E p \in HandleProcs : PConstruct(p)
    \/ \E p \in HandleProcs, call \in {"done", "mark", "unmark"}, key \in Keys :
           PCall(p, call, key)
    \/ \E p \in HandleProcs : PCall(p, "clear", KInt1)
    \/ \E p \in HandleProcs : PReset(p)
    \/ \E p \in HandleProcs, ok \in BOOLEAN : PConnect(p, ok)
    \/ \E p \in HandleProcs : PSleep(p)
    \/ \E p \in HandleProcs : PBegin(p)
    \/ \E p \in HandleProcs : PStmt(p)
    \/ \E p \in HandleProcs : PEnd(p)
    \/ \E p \in HandleProcs : PClose(p)
    \/ \E p \in HandleProcs : PRet(p)
    \/ \E p \in HandleProcs : PResetRet(p)

SpecProc == InitProc /\ [][NextProc]_vars

\* Processes that are ready, on the existing table, each calling mark: the
\* concurrent inserts.  The server is reachable.
PReady == [PNew EXCEPT !.pc = "idle", !.h.ready = TRUE]

InitAdd ==
    /\ DONES_CACHE = <<>>
    /\ facades = <<>>
    /\ db \in {[u \in Urls |-> [t \in Tables |->
                  IF u = PUrl /\ t = PTable THEN [exists |-> TRUE, rows |-> rows]
                  ELSE NoTable]] : rows \in {<<>>, <<Serialize(KInt1)>>}}
    /\ dbLast = [u \in Urls |-> [t \in Tables |-> NoHistory]]
    /\ dbCleared = [u \in Urls |-> [t \in Tables |-> FALSE]]
    /\ fileLast = [p \in Paths |-> NoHistory]
    /\ tx = TxIdle
    /\ oc = OcIdle
    /\ procs = [p \in Procs |-> PReady]
    /\ th = [t \in Threads |-> ThIdle]
    /\ lp = LpIdle
    /\ backing = "add"
    /\ files = [p \in Paths |-> NoFile]

NextAdd ==
    \/ \E p \in Procs, key \in Keys : PCall(p, "mark", key)
    \/ \E p \in Procs : PConnect(p, TRUE)
    \/ \E p \in Procs : PBegin(p)
    \/ \E p \in Procs : PStmt(p)
    \/ \E p \in Procs : PEnd(p)
    \/ \E p \in Procs : PClose(p)
    \/ \E p \in Procs : PRet(p)

SpecAdd == InitAdd /\ [][NextAdd]_vars

\* The threads of one process calling get().
InitThreads ==
    /\ InitStore
    /\ backing = "threads"
    /\ files = [p \in Paths |-> NoFile]

NextThreads ==
    \/ \E t \in Threads, ns \in Namespaces, dburl \in Urls \cup {None} : GetTest(t, ns, dburl)
    \/ \E t \in Threads : GetConstruct(t)
    \/ \E t \in Threads : GetReturn(t)

SpecThreads == InitThreads /\ [][NextThreads]_vars

\* One process inside done, are_done or clear of a log file while other
\* processes mark, unmark and clear the same file.
InitLog ==
    /\ InitStore
    /\ backing = "log"
    /\ files \in {[p \in Paths |-> IF p = LogPath THEN f ELSE NoFile] :
                     f \in {NoFile, [exists |-> TRUE, content |-> <<>>]}}

NextLog ==
    \/ \E key \in Keys : LCheck("done", key, <<>>)
    \/ \E keys \in KeyLists : LCheck("are_done", KInt1, keys)
    \/ LCheck("clear", KInt1, <<>>)
    \/ LOpen
    \/ LRead
    \/ LRemove
    \/ LOtherClear
    \/ \E key \in Keys : TotalLines < MaxScanLines /\ FileMark(LogPath, key)
    \/ \E key \in Keys : TotalLines < MaxScanLines /\ FileUnmark(LogPath, key)

SpecLog == InitLog /\ [][NextLog]_vars

SpecConn ==
    InitConn /\ [][NextConn]_vars
             /\ WF_vars((\E ok \in BOOLEAN : OcConnect(ok)) \/ OcSleep \/ OcReturn)

----
\* What the claims speak of

\* The key's latest mark/unmark in the namespace of the object f was a mark.
DbMarkedLast(f, k) == dbLast[f.dburl][f.table][k] = "mark"

SameNamespace(f, g) == f.dburl = g.dburl /\ f.table = g.table

\* A log line read as a record: its action (4 characters) and its encoded key.
RecordAction(line) == SubSeq(line, 1, 4)
RecordKey(line) == SubSeq(line, 6, Len(line) - 1)

\* The action of the last record of the encoded key enc, <<>> when it has none.
LastRecordAction(lines, enc) ==
    LET idx == {i \in 1..Len(lines) : RecordKey(lines[i]) = enc}
    IN  IF idx = {} THEN <<>>
        ELSE RecordAction(lines[CHOOSE i \in idx : \A j \in idx : j <= i])

RECURSIVE Flatten(_)
Flatten(lines) == IF lines = <<>> THEN <<>> ELSE Head(lines) \o Flatten(Tail(lines))

\* The file with the records of every other key taken out.
OnlyRecordsOf(f, k) ==
    [exists |-> f.exists,
     content |-> Flatten(SelectSeq(Lines(f), LAMBDA l : RecordKey(l) = Serialize(k)))]

----
\* C1: on the relational facade reached through get(), in a namespace that has
\* seen mark and unmark calls only (no clear), done(k) returns true exactly when
\* the latest mark/unmark call on k was a mark (false when k has no call), and
\* neither done, mark nor unmark raises.
C1_DoneIffLastCallWasMark ==
    \A h \in Handles, k \in Keys :
        LET f == facades[h]
        IN  ~dbCleared[f.dburl][f.table] =>
                /\ ~DbDones_done(f, db, k).raised
                /\ DbDones_done(f, db, k).ret = DbMarkedLast(f, k)
                /\ ~DbDones_mark(f, db, k).raised
                /\ ~DbDones_unmark(f, db, k).raised

\* One key marked, the other marked and unmarked, and done() tells them apart.
C1_Witness ==
    \E h \in Handles :
        LET f == facades[h]
        IN  /\ ~dbCleared[f.dburl][f.table]
            /\ dbLast[f.dburl][f.table][KStr1] = "mark"
            /\ dbLast[f.dburl][f.table][KInt1] = "unmark"
            /\ DbDones_done(f, db, KStr1).ret
            /\ ~DbDones_done(f, db, KInt1).ret

\* C2: on the log store, done(k) is the action of the last record of k in the
\* file (false when k has no record), that record is the latest mark/unmark
\* call on k, and the records of other keys do not change the result.
C2_LastRecordWins ==
    \A p \in Paths, k \in Keys :
        /\ FileDones_done(files[p], k)
             = (LastRecordAction(Lines(files[p]), Serialize(k)) = <<"d", "o", "n", "e">>)
        /\ FileDones_done(files[p], k) = (fileLast[p][k] = "mark")
        /\ FileDones_done(files[p], k) = FileDones_done(OnlyRecordsOf(files[p], k), k)

\* mark(k); mark(k); unmark(k) with a record of another key in between: not done.
C2_Witness ==
    \E p \in Paths, k \in Keys, o \in Keys :
        /\ o # k
        /\ Lines(files[p]) = <<DoneLine(k), DoneLine(k), DoneLine(o), UndoneLine(k)>>
        /\ ~FileDones_done(files[p], k)
        /\ FileDones_done(files[p], o)

\* C3: clear() does not raise; right after it, on the same handle, done(k) is
\* false for every key, and a mark(k) then succeeds and makes done(k) true.
\* The same on the log store.
C3_ClearResets ==
    [][ /\ \A h \in Handles :
              DbClear(h) =>
                  /\ ~DbDones_clear(facades[h], db).raised
                  /\ \A k \in Keys :
                        LET f == facades'[h]
                            d == DbDones_done(f, db', k)
                            m == DbDones_mark(f, db', k)
                            d2 == DbDones_done([f EXCEPT !.ready = TRUE], m.db, k)
                        IN  /\ ~d.raised /\ ~d.ret
                            /\ ~m.raised
                            /\ ~d2.raised /\ d2.ret
        /\ \A p \in Paths :
              FileClear(p) =>
                  \A k \in Keys :
                      /\ ~FileDones_done(files'[p], k)
                      /\ FileDones_done(Persist(files'[p], DoneLine(k)), k)
      ]_vars

\* A namespace cleared and marked again since.
C3_Witness ==
    \E h \in Handles :
        LET f == facades[h]
        IN  /\ dbCleared[f.dburl][f.table]
            /\ DbMarkedLast(f, KStr1)
            /\ DbDones_done(f, db, KStr1).ret
            /\ ~DbDones_done(f, db, KInt1).ret

\* C4: a table holds at most one row per encoded key; exists(k) is true exactly
\* when a row of k is there, which is when k's latest mark/unmark was a mark;
\* add(k) on a key that has a row does not raise and leaves the table as it is.
C4_OneRowPerKey ==
    \A u \in Urls, t \in Tables :
        db[u][t].exists =>
            /\ \A e \in EncodedKeys : Count(db[u][t].rows, e) <= 1
            /\ \A k \in Keys :
                  /\ KStoreExists(db, u, t, k).ret = (Serialize(k) \in Range(db[u][t].rows))
                  /\ (Serialize(k) \in Range(db[u][t].rows)) = (dbLast[u][t][k] = "mark")
                  /\ Serialize(k) \in Range(db[u][t].rows) =>
                        /\ ~KStoreAdd(db, u, t, k).raised
                        /\ KStoreAdd(db, u, t, k).db = db

\* A table with a row for each key.
C4_Witness ==
    \E u \in Urls, t \in Tables :
        /\ db[u][t].exists
        /\ Len(db[u][t].rows) = Cardinality(Keys)
        /\ \A k \in Keys : KStoreExists(db, u, t, k).ret

\* C5, as stated: unmark(k) on a key that is not marked does not raise, leaves
\* every key's status as it was and leaves done(k) false.
C5_UnmarkUnmarkedIsNoop ==
    \A h \in Handles, k \in Keys :
        LET f == facades[h]
            r == DbDones_unmark(f, db, k)
            g == [f EXCEPT !.ready = TRUE]
        IN  ~DbMarkedLast(f, k) =>
                /\ ~r.raised
                /\ ~DbDones_done(g, r.db, k).ret
                /\ \A o \in Keys : DbDones_done(g, r.db, o).ret = DbMarkedLast(f, o)

\* C6, as stated: at most one DbDones object is ever constructed for a
\* (namespace, target) pair.
C6_OneFacadePerPair ==
    \A ns \in Namespaces, u \in Urls :
        Cardinality({h \in Handles : facades[h].ns = DonesNs(ns) /\ facades[h].dburl = u}) <= 1

\* C7: all_done(keys) returns true exactly when every key of the list is done
\* and any_done(keys) exactly when at least one is, on both stores.
C7_AllAnySemantics ==
    /\ \A h \in Handles, keys \in KeyLists :
          LET f == facades[h]
              a == DbDones_all_done(f, db, keys)
              y == DbDones_any_done(f, db, keys)
          IN  /\ (~a.raised /\ a.ret) = (\A i \in 1..Len(keys) : DbMarkedLast(f, keys[i]))
              /\ (~y.raised /\ y.ret) = (\E i \in 1..Len(keys) : DbMarkedLast(f, keys[i]))
    /\ \A p \in Paths, keys \in KeyLists :
          /\ FileDones_all_done(files[p], keys)
               = (\A i \in 1..Len(keys) : fileLast[p][keys[i]] = "mark")
          /\ FileDones_any_done(files[p], keys)
               = (\E i \in 1..Len(keys) : fileLast[p][keys[i]] = "mark")

\* A strict subset of the keys is marked: all_done is false, any_done is true.
C7_Witness ==
    \E h \in Handles :
        LET f == facades[h]
        IN  /\ DbMarkedLast(f, KInt1)
            /\ dbLast[f.dburl][f.table][KStr1] = "unmark"
            /\ ~DbDones_all_done(f, db, <<KInt1, KStr1>>).ret
            /\ DbDones_any_done(f, db, <<KStr1, KInt1>>).ret

\* C8: on the log store, are_done(K) is [done(k) for k in K], element by
\* element, for a missing file, an empty file and every sequence of records.
C8_BatchEquivalence ==
    \A p \in Paths, keys \in KeyLists :
        FileDones_are_done(files[p], keys)
            = [i \in 1..Len(keys) |-> FileDones_done(files[p], keys[i])]

\* A file with records of both keys, asked about a marked and an unmarked key.
C8_Witness ==
    \E p \in Paths :
        /\ Len(Lines(files[p])) >= 3
        /\ fileLast[p][KInt1] = "unmark"
        /\ FileDones_are_done(files[p], <<KStr1, KInt1>>) = <<TRUE, FALSE>>

\* C9: a mark, unmark or clear in one namespace leaves what done(k) returns in
\* every other namespace as it was, on both stores.
C9_NamespaceIsolation ==
    [][ /\ \A h \in Handles :
              (DbClear(h) \/ \E key \in Keys : DbMark(h, key) \/ DbUnmark(h, key)) =>
                  \A g \in Handles, k \in Keys :
                      ~SameNamespace(facades[g], facades[h]) =>
                          /\ DbDones_done(facades'[g], db', k).ret
                               = DbDones_done(facades[g], db, k).ret
                          /\ DbDones_done(facades'[g], db', k).raised
                               = DbDones_done(facades[g], db, k).raised
        /\ \A p \in Paths :
              (FileClear(p) \/ \E key \in Keys : FileMark(p, key) \/ FileUnmark(p, key)) =>
                  \A q \in Paths \ {p}, k \in Keys :
                      FileDones_done(files'[q], k) = FileDones_done(files[q], k)
      ]_vars

\* The same key is marked in one namespace and has no call in another.
C9_Witness ==
    \E g \in Handles, h \in Handles :
        /\ ~SameNamespace(facades[g], facades[h])
        /\ DbMarkedLast(facades[g], KStr1)
        /\ dbLast[facades[h].dburl][facades[h].table][KStr1] = "none"
        /\ DbDones_done(facades[g], db, KStr1).ret
        /\ ~DbDones_done(facades[h], db, KStr1).ret

Issued(x) == Count(tx.issued, x)

\* C10: every invocation of doTransaction issues exactly one of commit and
\* rollback on the connection, never both and never neither, whether the start
\* statement fails, the body fails, or both succeed.
C10_ExactlyOneOnAConnection ==
    (tx.pc = "done" /\ tx.conn # None) => Issued("commit") + Issued("rollback") = 1

\* An invocation that committed, then one whose start statement failed and
\* that rolled back.
C10_Witness ==
    /\ tx.pc = "done"
    /\ tx.conn # None
    /\ tx.history = <<"none">>
    /\ tx.issued = <<"start", "rollback">>

\* All attempts but the last have failed.
OcEarlierFailed == \A i \in 1..(Len(oc.attempts) - 1) : ~oc.attempts[i]

\* C11: open_conn with retries = r >= 0 makes at most r + 1 connect attempts and
\* sleeps once between consecutive attempts (at most r sleeps); it returns the
\* connection of the first attempt that succeeds and attempts nothing after
\* it; it raises only when all r + 1 attempts have failed; and every call ends.
C11_BoundedRetry ==
    /\ [](oc.r0 >= 0 =>
            /\ Len(oc.attempts) <= oc.r0 + 1
            /\ oc.sleeps <= oc.r0
            /\ oc.retries = oc.r0 - oc.sleeps
            /\ oc.sleeps = IF oc.pc \in {"try", "idle"} /\ oc.attempts = <<>> THEN 0
                           ELSE IF oc.pc = "try" THEN Len(oc.attempts)
                           ELSE Len(oc.attempts) - 1
            /\ OcEarlierFailed
            /\ oc.pc = "returned" =>
                  /\ oc.result = Len(oc.attempts)
                  /\ oc.attempts[oc.result]
            /\ oc.pc \in {"try", "sleep"} => \A i \in 1..Len(oc.attempts) : ~oc.attempts[i]
            /\ oc.pc = "raised" =>
                  /\ Len(oc.attempts) = oc.r0 + 1
                  /\ \A i \in 1..Len(oc.attempts) : ~oc.attempts[i]
                  /\ oc.raised = "ConnectError")
    /\ (oc.pc \in {"try", "sleep"} ~> oc.pc \in {"returned", "raised"})

\* A call with retries = 2 whose third attempt succeeded, after two sleeps.
C11_Witness ==
    /\ oc.pc = "returned"
    /\ oc.r0 = 2
    /\ oc.attempts = <<FALSE, FALSE, TRUE>>
    /\ oc.sleeps = 2
    /\ oc.result = 3

PRows == db[PUrl][PTable].rows

\* C12: when several processes run add(k) on the same existing table, in every
\* interleaving of the steps of their transactions no call fails, no two open
\* transactions have both inserted a row of one key, the table never holds
\* two rows of a key, and once an add(k) has committed the table holds
\* exactly one row of k.
C12_ConcurrentAdd ==
    /\ \A e \in EncodedKeys : Count(PRows, e) <= 1
    /\ \A p \in Procs : \A q \in Procs \ {p} :
          ~(/\ procs[p].pending.kind = "ins" /\ procs[p].pending.n > 0
            /\ procs[q].pending.kind = "ins" /\ procs[q].pending.n > 0
            /\ procs[p].pending.name = procs[q].pending.name)
    /\ \A p \in Procs :
          procs[p].call = "mark" =>
              /\ procs[p].failed = "none"
              /\ procs[p].pc \in {"close", "ret", "idle"} =>
                    Count(PRows, Serialize(procs[p].key)) = 1

\* One process has inserted the row of a key and returned; the transactions of
\* the two others overlap, each with its INSERT IGNORE of that key done, found
\* a duplicate, and not yet committed.
C12_Witness ==
    \E p \in Procs :
        /\ procs[p].pc = "idle" /\ procs[p].call = "mark" /\ procs[p].key = KStr1
        /\ PRows = <<Serialize(KStr1)>>
        /\ \A q \in Procs \ {p} :
              /\ procs[q].pc = "end"
              /\ procs[q].pending = [kind |-> "ins", name |-> Serialize(KStr1), n |-> 0]

\* C13, as stated: when threads call get() concurrently for a pair that is not
\* cached, one DbDones is constructed for the pair and every thread receives
\* that same object.
C13_OneFacadeUnderThreads ==
    /\ \A ns \in Namespaces, u \in Urls :
          Cardinality({h \in Handles :
                          facades[h].ns = DonesNs(ns) /\ facades[h].dburl = u}) <= 1
    /\ \A t \in Threads, v \in Threads :
          (/\ th[t].pc = "done" /\ th[v].pc = "done"
           /\ th[t].ns = th[v].ns /\ th[t].dburl = th[v].dburl)
              => th[t].result = th[v].result

\* C14, as stated: mark(key) appends the one line "DONE " + json + "\n" and
\* unmark(key) the one line "UNDONE " + json + "\n" to the end of the file, the
\* earlier lines staying as they were.
C14_LogFormatUpperCase ==
    [][\A p \in Paths, key \in Keys :
          /\ FileMark(p, key) =>
                Lines(files'[p]) = Append(Lines(files[p]),
                    <<"D", "O", "N", "E", " ">> \o Serialize(key) \o <<"\n">>)
          /\ FileUnmark(p, key) =>
                Lines(files'[p]) = Append(Lines(files[p]),
                    <<"U", "N", "D", "O", "N", "E", " ">> \o Serialize(key) \o <<"\n">>)
      ]_vars

\* The start statement fails: executeSQL on None has no cursor(), and on a
\* connection the server may refuse the statement.
StartFails(conn, start, startOk) == start /\ (conn = None \/ ~startOk)

StartFailure(conn) == IF conn = None THEN "AttributeError" ELSE "StartError"

LastIssued(t) == IF t.issued = <<>> THEN "nothing" ELSE t.issued[Len(t.issued)]

\* C15, as stated: on a failure of the start statement or of the body,
\* doTransaction issues rollback and the caller gets the original failure; when
\* both succeed it issues commit and the caller gets nothing from the body.
C15_RollbackAndReraise ==
    [][ /\ \A conn \in Conns, start \in BOOLEAN, startOk \in BOOLEAN, rollbackOk \in BOOLEAN :
              (TxEnter(conn, start, startOk, rollbackOk) /\ StartFails(conn, start, startOk)) =>
                  /\ tx'.pc = "done"
                  /\ LastIssued(tx') = "rollback"
                  /\ tx'.raised = StartFailure(conn)
        /\ \A bodyOk \in BOOLEAN, commitOk \in BOOLEAN, rollbackOk \in BOOLEAN :
              TxExit(bodyOk, commitOk, rollbackOk) =>
                  IF bodyOk
                  THEN /\ tx'.issued = Append(tx.issued, "commit")
                       /\ tx'.raised # "BodyError"
                  ELSE /\ tx'.issued = Append(tx.issued, "rollback")
                       /\ tx'.raised = "BodyError"
      ]_vars

\* C15, amended: on a connection, a failure of the start statement or of the
\* body is followed by rollback, and the caller gets the original failure when
\* the rollback returns and the rollback's own exception when it raises, never
\* success; when both succeed commit is issued, no rollback, and the caller gets
\* nothing from the body.  With conn None nothing is issued and the caller
\* gets the failure.
C15_RollbackAndReraiseOnAConnection ==
    [][ /\ \A conn \in Conns, start \in BOOLEAN, startOk \in BOOLEAN, rollbackOk \in BOOLEAN :
              (TxEnter(conn, start, startOk, rollbackOk) /\ StartFails(conn, start, startOk)) =>
                  /\ tx'.pc = "done"
                  /\ tx'.issued = IF conn = None THEN <<>> ELSE <<"start", "rollback">>
                  /\ tx'.raised = IF conn # None /\ ~rollbackOk THEN "RollbackError"
                                  ELSE StartFailure(conn)
        /\ \A bodyOk \in BOOLEAN, commitOk \in BOOLEAN, rollbackOk \in BOOLEAN :
              TxExit(bodyOk, commitOk, rollbackOk) =>
                  /\ tx'.pc = "done"
                  /\ IF tx.conn = None
                     THEN /\ tx'.issued = tx.issued
                          /\ tx'.raised = IF bodyOk THEN "AttributeError" ELSE "BodyError"
                     ELSE IF bodyOk
                          THEN /\ tx'.issued = Append(tx.issued, "commit")
                               /\ tx'.raised = IF commitOk THEN "none" ELSE "CommitError"
                          ELSE /\ tx'.issued = Append(tx.issued, "rollback")
                               /\ tx'.raised = IF rollbackOk THEN "BodyError"
                                               ELSE "RollbackError"
      ]_vars

\* The body failed after the start statement; rollback was issued and the
\* caller gets the body's failure.
C15_Witness ==
    /\ tx.pc = "done"
    /\ tx.conn # None
    /\ tx.issued = <<"start", "rollback">>
    /\ tx.raised = "BodyError"

\* C16: every KStore method opens a connection of its own (none is open when
\* it starts to connect), holds exactly one while it runs its transaction,
\* and closes it after the commit or rollback, whether it returns or raises;
\* between methods, and after a connection attempt that failed, no connection
\* is open.
C16_ScopedConnections ==
    \A p \in HandleProcs :
        LET q == procs[p]
        IN  /\ q.conns \in {0, 1}
            /\ (q.conns = 1) = (q.pc \in {"begin", "stmt", "end", "close"})
            /\ q.pc \in {"new", "idle", "connect", "sleep", "ret"} => q.conns = 0
            /\ (q.inTx \/ q.pending # NoPending) => (q.conns = 1 /\ q.pc \in {"stmt", "end"})
            /\ q.failed = "ConnectError" => q.conns = 0

\* One method has raised for want of a connection, the other because its
\* statement failed; neither holds a connection.
C16_Witness ==
    \E p \in HandleProcs, q \in HandleProcs :
        /\ procs[p].pc = "ret" /\ procs[p].failed = "ConnectError" /\ procs[p].conns = 0
        /\ procs[q].pc = "ret" /\ procs[q].failed = "NoTable" /\ procs[q].kop = "remove"
        /\ procs[q].conns = 0

\* C17: constructing a DbDones sends nothing to the server and leaves ready
\* false; a call of done/mark/unmark/clear starts with create() exactly when
\* ready is false; ready becomes true only when create() has returned, and a
\* create() that raised ends the call with that exception and ready still
\* false; ready goes back to false only when the drop() of clear() has returned.
\* The calls are those of DbDones; reset() of the store is not one of them and
\* changes ready at no step.
C17_LazyReadiness ==
    [][\A p \in HandleProcs :
          LET q == procs[p]
              r == procs'[p]
              dq == q.call # "reset"
              dr == r.call # "reset"
          IN  /\ PConstruct(p) => (db' = db /\ ~r.h.ready /\ r.kop = "none")
              /\ (q.pc = "idle" /\ r.pc = "connect" /\ dr) =>
                    r.kop = IF q.h.ready THEN KopOf(r.call) ELSE "create"
              /\ (r.kop = "create" /\ dr) => ~r.h.ready
              /\ (~q.h.ready /\ r.h.ready) =>
                    (q.pc = "ret" /\ q.kop = "create" /\ q.failed = "none" /\ dq
                     /\ r.kop = KopOf(q.call) /\ r.pc = "connect")
              /\ (q.pc = "ret" /\ q.kop = "create" /\ q.failed = "none" /\ dq /\ r # q) =>
                    r.h.ready
              /\ (q.pc = "ret" /\ q.kop = "create" /\ q.failed # "none" /\ dq /\ r # q) =>
                    (r.pc = "idle" /\ r.failed = q.failed /\ ~r.h.ready)
              /\ (q.h.ready /\ ~r.h.ready) =>
                    (q.pc = "ret" /\ q.kop = "drop" /\ q.failed = "none" /\ dq
                     /\ r.pc = "idle")
              /\ (q.pc = "ret" /\ q.kop = "drop" /\ q.failed = "none" /\ dq /\ r # q) =>
                    ~r.h.ready
              /\ ~dr => r.h.ready = q.h.ready
      ]_vars

\* One process has cleared and is not ready again; the other's create() has
\* raised and it is not ready either.
C17_Witness ==
    \E p \in HandleProcs, q \in HandleProcs :
        /\ procs[p].pc = "idle" /\ procs[p].call = "clear" /\ procs[p].failed = "none"
        /\ ~procs[p].h.ready
        /\ procs[q].pc = "idle" /\ procs[q].call = "mark" /\ procs[q].failed = "ConnectError"
        /\ ~procs[q].h.ready
        /\ ~db[PUrl][PTable].exists

\* C18, as stated: with two DbDones objects on the same table, no statement of
\* a done/mark/unmark call fails because the table is missing.
C18_NoCallFindsTableDropped ==
    \A p \in HandleProcs :
        procs[p].kop \in {"exists", "add", "remove"} => procs[p].failed # "NoTable"

\* C19, as stated: on the log store done, are_done and clear never raise, also
\* when another process clears the file between their existence check and
\* their open or remove.
C19_NoFailureOnMissingFile ==
    lp.raised = "none"

\* The log file now, and its first n lines.
LogLines == Lines(files[LogPath])
LogPrefix(n) == [exists |-> TRUE, content |-> Flatten(SubSeq(LogLines, 1, n))]

\* C20: with whole-line appends and no clear() since the call began, a done(k)
\* scan alongside appends has, at every step, the status of k in the lines read
\* so far, which are a prefix of the log; when it returns, the lines read are
\* the whole log of that moment and include those present at the open, so the
\* value returned is the one done(k) has at that moment.
C20_ScanReturnsAPrefixStatus ==
    /\ []((lp.pc = "read" /\ lp.op = "done" /\ ~lp.cleared) =>
            /\ lp.pos <= Len(LogLines)
            /\ lp.openLen <= Len(LogLines)
            /\ lp.is_done = FileDones_done(LogPrefix(lp.pos), lp.key))
    /\ [][(lp.pc = "read" /\ lp.op = "done" /\ ~lp.cleared /\ lp'.pc = "idle") =>
            /\ lp.openLen <= lp.pos
            /\ lp.pos = Len(LogLines)
            /\ lp'.ret = FileDones_done(LogPrefix(lp.pos), lp.key)
            /\ lp'.ret = FileDones_done(files[LogPath], lp.key)
            /\ lp'.raised = "none"
         ]_vars

\* A scan of done(k) that opened the file when it held one line, a mark of k,
\* has read it and an unmark of k appended since, and has one more appended
\* mark of k to read.
C20_Witness ==
    \E k \in Keys :
        /\ lp.pc = "read" /\ lp.op = "done" /\ lp.key = k /\ ~lp.cleared
        /\ lp.openLen = 1
        /\ lp.pos = 2
        /\ ~lp.is_done
        /\ LogLines = <<DoneLine(k), UndoneLine(k), DoneLine(k)>>

====
